---- MODULE Spec2Model ----
(***************************************************************************)
(* The Telegram session pool of lazyio (BackEnd/telegram_client.py):       *)
(* TelegramClientWrapper.__init__, start, stop, download_media,            *)
(* upload_file, get_file_info and stream_file as a state machine, with the *)
(* callers of BackEnd/main.py (lifespan, GET /api/stream/{song_id}).  One  *)
(* action is one run of a coroutine from one await to the next; the        *)
(* answers of the transport (Telethon) are the nondeterministic inputs of  *)
(* the actions.                                                            *)
(*                                                                         *)
(* Sizes are scaled: a byte of the model stands for a byte of the object,  *)
(* ChunkSize for the chunk_size of 1 MiB that stream_file asks for.        *)
(***************************************************************************)
EXTENDS Integers, Sequences, FiniteSets, TLC

\* ------------------------------------------------------------------ bounds

\* Number of sessions of the pool (TELEGRAM_POOL_SIZE, default 4).
PoolSize == 2

\* Longest stored object, in bytes.
MaxFileLen == 4

\* chunk_size of stream_file (1024 * 1024 in the source), scaled.
ChunkSize == 2

\* max_retries of start().
MaxRetries == 3

Sessions == 0 .. (PoolSize - 1)

\* The message id the requests look up (the first message of the channel).
BlobId == 1

Min(a, b) == IF a < b THEN a ELSE b

Max(a, b) == IF a > b THEN a ELSE b

\* The bytes of the file of length n: every position holds its own value,
\* and files of different lengths differ at every position.
FileBytes(n) == [p \in 1 .. n |-> 10 * n + p]

Files == { FileBytes(n) : n \in 1 .. MaxFileLen }

\* Arguments of stream_file that the callers are let to pass.
Offsets == 0 .. MaxFileLen

Limits == (0 - 1) .. (MaxFileLen + 1)

\* ------------------------------------------------------------------- state

VARIABLES
    sess,        \* sess[i]: what session i is to the channel:
                 \*   "dead"  never started (every call on it raises),
                 \*   "yes"   fetches the message with its media,
                 \*   "no"    cannot see the message,
                 \*   "stale" reports the message as not found until its
                 \*           destination cache is refreshed
    bin_entity,  \* self._bin_entity is set
    channel,     \* the documents of BIN_CHANNEL; message id = index
    disk,        \* the thumbnail files present on the local disk
    su,          \* start(): its position in the coroutine
    up,          \* upload_file(): the call in flight
    gi,          \* get_file_info(): the call in flight
    st,          \* st[r]: the stream_file() generator of request r
    pool,        \* the pool object: its construction, clients and primary
    sd,          \* stop(): the call in flight and its disconnect tasks
    dm,          \* download_media(): the call in flight
    http,        \* GET /api/stream/{song_id}: the request being served
    log,         \* history: the transport calls of start(), in order
    ups,         \* ups[r]: the upload_file() call r of several side by side
    sn           \* _sanitize_filename(): the name passed, the names returned

vars ==
    <<sess, bin_entity, channel, disk, su, up, gi, st, pool, sd, dm, http,
      log, ups, sn>>

\* The state of the pool object, of its shutdown and of the callers.
appvars == <<pool, sd, dm, http>>

\* The history of start() and the uploads that run side by side.
auxvars == <<log, ups, sn>>

\* ------------------------------------------------ the transport (Telethon)

NoMessage == [found |-> FALSE, media |-> FALSE, data |-> <<>>]

\* The message a fetch answers with, by the kind of answer.
MessageOf(kind, id) ==
    CASE kind = "media"   -> [found |-> TRUE, media |-> TRUE, data |-> channel[id]]
      [] kind = "nomedia" -> [found |-> TRUE, media |-> FALSE, data |-> <<>>]
      [] OTHER            -> NoMessage

\* client.get_messages(bin_channel, ids=id) on session i: the answers the
\* transport can give.  "raise": the call raises; "none": it returns None;
\* "nomedia": a message without media; "media": the message with its media.
\* On a session whose connection has gone silent ("hung") the await gets no
\* answer at all.
FetchOutcomes(i, id) ==
    CASE sess[i] = "dead"  -> {"raise"}
      [] sess[i] = "hung"  -> {}
      [] sess[i] = "stale" -> {"none"}
      [] sess[i] = "no"    -> {"raise", "none", "nomedia"}
      [] OTHER             -> IF id \in DOMAIN channel THEN {"media"} ELSE {"none"}

\* client.get_input_entity(bin_channel) on session i.
ResolveOutcomes(i) ==
    CASE sess[i] = "dead" -> {"raise"}
      [] sess[i] = "hung" -> {}
      [] OTHER            -> {"ok", "raise"}

\* Resolved with the caches of all the sessions repopulated by the
\* resolution on one of them.
ResolvedAll(i) ==
    [j \in DOMAIN sess |-> IF sess[j] = "stale" THEN "yes" ELSE sess[j]]

\* The session table after session i has resolved the destination: a stale
\* cache is repopulated.
Resolved(i) ==
    IF sess[i] = "stale" THEN [sess EXCEPT ![i] = "yes"] ELSE sess

\* One chunk of client.iter_download(media, offset=pos, chunk_size=size):
\* the next `size` bytes of the document from byte `pos`, fewer at its end,
\* none past it.
DownloadChunk(data, pos, size) ==
    SubSeq(data, pos + 1, Min(pos + size, Len(data)))

\* --------------------------------------------------------------- __init__

\* The pool object before tg_client = TelegramClientWrapper() has run.
PoolNone == [state |-> "none", pool_size |-> 0, clients |-> <<>>, client |-> 0 - 1]

\* The values of TELEGRAM_POOL_SIZE that the environment can hold.
ConfiguredSizes == (0 - 1) .. PoolSize

\* PoolInit without the IndexError of self.clients[0]: an empty pool is
\* constructed, with no primary.
PoolInitNoIndexError(config_ok, n) ==
    LET clients == IF n < 1 THEN <<>> ELSE [k \in 1 .. n |-> k - 1]
    IN  IF ~config_ok
        THEN [PoolNone EXCEPT !.state = "failed"]
        ELSE [state |-> "ok", pool_size |-> n, clients |-> clients,
              client |-> IF clients = <<>> THEN 0 - 1 ELSE clients[1]]

\* __init__: ValueError when the configuration is incomplete; one client
\* appended per `for i in range(self.pool_size)`; self.client =
\* self.clients[0] raises IndexError on an empty list.
PoolInit(config_ok, n) ==
    LET clients == IF n < 1 THEN <<>> ELSE [k \in 1 .. n |-> k - 1]
    IN  IF ~config_ok
        THEN [PoolNone EXCEPT !.state = "failed"]
        ELSE IF clients = <<>>
        THEN [state |-> "failed", pool_size |-> n, clients |-> clients,
              client |-> 0 - 1]
        ELSE [state |-> "ok", pool_size |-> n, clients |-> clients,
              client |-> clients[1]]

\* The operations of the model run on the pool of PoolSize sessions.
PoolReady == pool.state = "ok" /\ Len(pool.clients) = PoolSize

\* The module-level tg_client = TelegramClientWrapper().
Construct ==
    /\ pool.state = "none"
    /\ \E config_ok \in BOOLEAN, n \in ConfiguredSizes :
          pool' = PoolInit(config_ok, n)
    /\ UNCHANGED <<sess, bin_entity, channel, disk, su, up, gi, st, sd, dm, http, auxvars>>

\* ---------------------------------------------------------------- start()

SuIdle == [pc |-> "init", i |-> 0, attempt |-> 0]

StartFinished == su.pc \in {"returned", "raised"}

\* start() is called once, by the application's delayed_init.
StartCall ==
    /\ PoolReady
    /\ sd.pc = "idle"
    /\ su.pc = "init"
    /\ su' = [su EXCEPT !.pc = "auth"]
    /\ UNCHANGED <<sess, bin_entity, channel, disk, up, gi, st, appvars, auxvars>>

\* After the attempts on session su.i are over: the next session, or the
\* end of the loop.
StartNextSession ==
    IF su.i + 1 < PoolSize
    THEN [pc |-> "auth", i |-> su.i + 1, attempt |-> 0]
    ELSE [pc |-> "getme", i |-> 0, attempt |-> 0]

\* One entry of the history of start(): the call, the session, the answer.
LogEntry(call, i, outcome) == [call |-> call, i |-> i, outcome |-> outcome]

\* StartAttemptWith with a rate-limit wait that is not counted: after the
\* sleep the same attempt is made again.
StartAttemptFloodFree(outcome) ==
    /\ su.pc = "auth"
    /\ IF outcome = "ok"
       THEN /\ \E view \in {"yes", "no", "stale"} :
                  sess' = [sess EXCEPT ![su.i] = view]
            /\ su' = StartNextSession
       ELSE /\ su' = IF outcome = "flood" THEN su
                     ELSE IF su.attempt + 1 < MaxRetries
                     THEN [su EXCEPT !.attempt = su.attempt + 1]
                     ELSE StartNextSession
            /\ UNCHANGED sess
    /\ UNCHANGED <<bin_entity, channel, disk, up, gi, st, appvars, ups, sn>>

\* StartAttemptWith with the startup given up at the first session that
\* runs out of attempts.
StartAttemptGivesUp(outcome) ==
    /\ su.pc = "auth"
    /\ IF outcome = "ok"
       THEN /\ \E view \in {"yes", "no", "stale"} :
                  sess' = [sess EXCEPT ![su.i] = view]
            /\ su' = StartNextSession
       ELSE /\ su' = IF su.attempt + 1 < MaxRetries
                     THEN [su EXCEPT !.attempt = su.attempt + 1]
                     ELSE [pc |-> "getme", i |-> 0, attempt |-> 0]
            /\ UNCHANGED sess
    /\ UNCHANGED <<bin_entity, channel, disk, up, gi, st, appvars, ups, sn>>

\* One pass of `for attempt in range(max_retries)`: client.start() on
\* session su.i succeeds (break), or raises FloodWaitError (sleep, next
\* attempt), or raises another error (next attempt).
StartAttemptWith(outcome) ==
    /\ su.pc = "auth"
    /\ IF outcome = "ok"
       THEN /\ \E view \in {"yes", "no", "stale"} :
                  sess' = [sess EXCEPT ![su.i] = view]
            /\ su' = StartNextSession
       ELSE /\ su' = IF su.attempt + 1 < MaxRetries
                     THEN [su EXCEPT !.attempt = su.attempt + 1]
                     ELSE StartNextSession
            /\ UNCHANGED sess
    /\ UNCHANGED <<bin_entity, channel, disk, up, gi, st, appvars, ups, sn>>

StartAttempt ==
    /\ \E outcome \in {"ok", "flood", "error"} : StartAttemptWith(outcome)
    /\ UNCHANGED log

\* StartAttempt with the call written to the history.
StartAttemptLogged ==
    \E outcome \in {"ok", "flood", "error"} :
        /\ StartAttemptWith(outcome)
        /\ log' = Append(log, LogEntry("start", su.i, outcome))

\* me = await self.client.get_me(); print(me.first_name ...): on a primary
\* session that never started, get_me raises (not connected) or returns
\* None (not authorized) and me.first_name raises; nothing catches either.
StartGetMe ==
    /\ su.pc = "getme"
    /\ su' = IF sess[0] = "dead"
             THEN [su EXCEPT !.pc = "raised"]
             ELSE [su EXCEPT !.pc = "resolve0"]
    /\ UNCHANGED <<sess, bin_entity, channel, disk, up, gi, st, appvars, auxvars>>

\* _resolve_bin_channel, the primary: a failure leaves the outer try, past
\* the loop over the other workers.
ResolvePrimaryWith(outcome) ==
    /\ su.pc = "resolve0"
    /\ outcome \in ResolveOutcomes(0)
    /\ IF outcome = "ok"
       THEN /\ sess' = Resolved(0)
            /\ bin_entity' = TRUE
            /\ su' = IF PoolSize > 1
                     THEN [su EXCEPT !.pc = "resolveN", !.i = 1]
                     ELSE [su EXCEPT !.pc = "returned"]
       ELSE /\ su' = [su EXCEPT !.pc = "returned"]
            /\ UNCHANGED <<sess, bin_entity>>
    /\ UNCHANGED <<channel, disk, up, gi, st, appvars, ups, sn>>

ResolvePrimary ==
    /\ \E outcome \in {"ok", "raise"} : ResolvePrimaryWith(outcome)
    /\ UNCHANGED log

\* ResolvePrimary with the call written to the history.
ResolvePrimaryLogged ==
    \E outcome \in {"ok", "raise"} :
        /\ ResolvePrimaryWith(outcome)
        /\ log' = Append(log, LogEntry("resolve", 0, outcome))

\* _resolve_bin_channel, worker su.i of clients[1:]: its failure is caught
\* inside the loop.
ResolveWorkerWith(outcome) ==
    /\ su.pc = "resolveN"
    /\ outcome \in ResolveOutcomes(su.i)
    /\ sess' = IF outcome = "ok" THEN Resolved(su.i) ELSE sess
    /\ su' = IF su.i + 1 < PoolSize
             THEN [su EXCEPT !.i = su.i + 1]
             ELSE [su EXCEPT !.pc = "returned"]
    /\ UNCHANGED <<bin_entity, channel, disk, up, gi, st, appvars, ups, sn>>

ResolveWorker ==
    /\ \E outcome \in {"ok", "raise"} : ResolveWorkerWith(outcome)
    /\ UNCHANGED log

\* ResolveWorker with the call written to the history.
ResolveWorkerLogged ==
    \E outcome \in {"ok", "raise"} :
        /\ ResolveWorkerWith(outcome)
        /\ log' = Append(log, LogEntry("resolve", su.i, outcome))

Start == StartCall \/ StartAttempt \/ StartGetMe \/ ResolvePrimary \/ ResolveWorker

\* start() with its history kept.
StartLogged ==
    \/ StartCall
    \/ StartAttemptLogged
    \/ StartGetMe
    \/ ResolvePrimaryLogged
    \/ ResolveWorkerLogged

\* ------------------------------------------------------ _sanitize_filename()

\* A name is a sequence of characters, each a one-character string; the
\* string "U+FF5C" stands for the fullwidth vertical line.

\* The length above which a name is shortened.
MaxNameLen == 200

\* The characters of the name kept in front of the extension.
KeptLen == 195

\* filename.replace('\uFF5C', '-').replace('|', '-')
ReplaceBars(s) ==
    [k \in DOMAIN s |-> IF s[k] \in {"U+FF5C", "|"} THEN "-" ELSE s[k]]

\* The character class of re.sub(r'[<>:"/\\?*]', '', filename).
Illegal == {"<", ">", ":", "\"", "/", "\\", "?", "*"}

IsLegal(c) == c \notin Illegal

StripIllegal(s) == SelectSeq(s, IsLegal)

\* The last index of character c in s; 0 when s has none.
LastIndex(s, c) ==
    LET at == { k \in DOMAIN s : s[k] = c }
    IN  IF at = {} THEN 0 ELSE CHOOSE k \in at : \A j \in at : j <= k

\* os.path.splitext: the extension runs from the last dot to the end, when
\* that dot comes after the last separator and some character between the
\* two is not a dot; otherwise the extension is empty.
SplitExt(p) ==
    LET sep == LastIndex(p, "/")
        dot == LastIndex(p, ".")
    IN  IF dot > sep /\ \E k \in (sep + 1) .. (dot - 1) : p[k] # "."
        THEN [name |-> SubSeq(p, 1, dot - 1), ext |-> SubSeq(p, dot, Len(p))]
        ELSE [name |-> p, ext |-> <<>>]

\* _sanitize_filename(filename)
SanitizeFilename(filename) ==
    LET f == StripIllegal(ReplaceBars(filename))
        s == SplitExt(f)
    IN  IF Len(f) > MaxNameLen
        THEN SubSeq(s.name, 1, Min(KeptLen, Len(s.name))) \o s.ext
        ELSE f

\* k filler characters.
Filler(k) == [i \in 1 .. k |-> "a"]

\* The names passed to _sanitize_filename: a run of filler characters, a
\* stem and an extension.
PadLengths == {0, KeptLen, MaxNameLen, MaxNameLen + 1}

Stems ==
    { <<>>, <<"s">>, <<"a", "|", "b">>, <<"U+FF5C", "x">>,
      <<"<", ">", ":", "\"", "/", "\\", "?", "*">>,
      <<".", "h">>, <<"a", ".", "b">> }

Extensions ==
    { <<>>, <<".">>, <<".", "m", "p", "3">>,
      <<".", "t", "o", "r", "r", "e", "n", "t">> }

Names ==
    { Filler(k) \o s \o e : k \in PadLengths, s \in Stems, e \in Extensions }

SnIdle == [pc |-> "idle", input |-> <<>>, once |-> <<>>, twice |-> <<>>]

\* The name is sanitized.
SanitizeCall ==
    /\ sn.pc = "idle"
    /\ sn' = [sn EXCEPT !.pc = "once", !.once = SanitizeFilename(sn.input)]
    /\ UNCHANGED <<sess, bin_entity, channel, disk, su, up, gi, st, appvars, log, ups>>

\* The name returned is sanitized again.
SanitizeAgain ==
    /\ sn.pc = "once"
    /\ sn' = [sn EXCEPT !.pc = "twice", !.twice = SanitizeFilename(sn.once)]
    /\ UNCHANGED <<sess, bin_entity, channel, disk, su, up, gi, st, appvars, log, ups>>

\* ------------------------------------------------------------ stream_file()

StIdle ==
    [pc |-> "idle", message_id |-> 0, offset |-> 0, limit |-> 0,
     length |-> 0, worker_idx |-> 0, client |-> 0, message |-> NoMessage,
     scan_i |-> 0, remaining |-> 0, current_pos |-> 0, it_pos |-> 0, it_left |-> 0,
     emitted |-> <<>>, fetched |-> <<>>, error |-> "none"]

\* No request is in flight: the caller of the model issues one at a time.
Quiet ==
    /\ StartFinished
    /\ up.pc \in {"idle", "returned"}
    /\ gi.pc = "idle"
    /\ \A r \in DOMAIN st : st[r].pc = "idle"
    /\ dm.pc = "idle"
    /\ http.pc = "idle"
    /\ sd.pc = "idle"

\* The first call of the generator: worker_idx = random.randint(0,
\* pool_size - 1), client = self.clients[worker_idx], up to the first await.
\* `length` keeps the limit as the caller passed it.
StreamEnter(s, id, offset, limit, w) ==
    [s EXCEPT !.pc = "fetch", !.message_id = id, !.offset = offset,
              !.limit = limit, !.length = limit, !.worker_idx = w,
              !.client = w]

\* raise FileNotFound(...), re-raised by the outer handler.
StreamNotFound(s) ==
    [s EXCEPT !.pc = "raised", !.error = "FileNotFound", !.message = NoMessage]

\* StreamBegin without the default "to the end": a limit <= 0 is passed on
\* as it is.
StreamBeginNoDefault(s, client, message) ==
    [s EXCEPT !.pc = "stream", !.client = client, !.message = message,
              !.remaining = s.limit, !.current_pos = s.offset,
              !.it_pos = s.offset, !.it_left = Max(s.limit, 0)]

\* StreamBegin with the download started at the head of the document,
\* whatever the offset.
StreamBeginFromStart(s, client, message) ==
    LET file_size == Len(message.data)
        limit     == IF s.limit <= 0 THEN file_size - s.offset ELSE s.limit
    IN  [s EXCEPT !.pc = "stream", !.client = client, !.message = message,
                  !.limit = limit, !.remaining = limit,
                  !.current_pos = s.offset,
                  !.it_pos = 0, !.it_left = Max(limit, 0)]

\* StreamBegin with the download left on the picked session after the scan
\* has found the message on another one.
StreamBeginOnPicked(s, client, message) ==
    LET file_size == Len(message.data)
        limit     == IF s.limit <= 0 THEN file_size - s.offset ELSE s.limit
    IN  [s EXCEPT !.pc = "stream", !.client = s.worker_idx, !.message = message,
                  !.limit = limit, !.remaining = limit,
                  !.current_pos = s.offset,
                  !.it_pos = s.offset, !.it_left = Max(limit, 0)]

\* Step 3, to the first chunk request: file_size, the limit "to the end" when
\* limit <= 0, remaining, current_pos, and the iterator of
\* client.iter_download(media, offset=current_pos, limit=remaining,
\* chunk_size=chunk_size): Telethon's limit is a number of chunks, and a
\* negative one counts as zero.
StreamBegin(s, client, message) ==
    LET file_size == Len(message.data)
        limit     == IF s.limit <= 0 THEN file_size - s.offset ELSE s.limit
    IN  [s EXCEPT !.pc = "stream", !.client = client, !.message = message,
                  !.limit = limit, !.remaining = limit,
                  !.current_pos = s.offset,
                  !.it_pos = s.offset, !.it_left = Max(limit, 0)]

\* if not message or not message.media: raise FileNotFound; else stream.
StreamResolved(s, client, message) ==
    IF (~message.found) \/ (~message.media)
    THEN StreamNotFound(s)
    ELSE StreamBegin(s, client, message)

\* NextScan without `if i == worker_idx: continue`: the scan comes back to
\* the picked session.
NextScanAll(i, w) ==
    IF i < PoolSize THEN i ELSE PoolSize

\* The next index of `for i in range(len(self.clients))` from i on that is
\* not worker_idx; PoolSize when the loop is over.
NextScan(i, w) ==
    LET rest == { j \in i .. (PoolSize - 1) : j # w }
    IN  IF rest = {} THEN PoolSize
        ELSE CHOOSE j \in rest : \A k \in rest : j <= k

StreamCall(r) ==
    /\ Quiet
    /\ \E offset \in Offsets, limit \in Limits, w \in Sessions :
          st' = [st EXCEPT ![r] = StreamEnter(StIdle, BlobId, offset, limit, w)]
    /\ UNCHANGED <<sess, bin_entity, channel, disk, su, up, gi, appvars, auxvars>>

\* message = await client.get_messages(...) on the picked session.  Only an
\* exception enters the scan of the other sessions; any returned value goes
\* to the `if not message or not message.media` test.
StreamFetch(r) ==
    LET s  == st[r]
        s1 == [s EXCEPT !.fetched = Append(@, s.worker_idx)]
    IN  /\ s.pc = "fetch"
        /\ \E o \in FetchOutcomes(s.worker_idx, s.message_id) :
              st' = [st EXCEPT ![r] =
                  IF o = "raise"
                  THEN IF NextScan(0, s.worker_idx) = PoolSize
                       THEN StreamNotFound(s1)
                       ELSE [s1 EXCEPT !.pc = "scan",
                                       !.scan_i = NextScan(0, s.worker_idx)]
                  ELSE StreamResolved(s1, s.worker_idx,
                                      MessageOf(o, s.message_id))]
        /\ UNCHANGED <<sess, bin_entity, channel, disk, su, up, gi, appvars, auxvars>>

\* One pass of the failover loop: msg_check = await
\* self.clients[i].get_messages(...); the first session that answers with
\* media is switched to; an exception or any other answer goes on.
StreamScan(r) ==
    LET s  == st[r]
        s1 == [s EXCEPT !.fetched = Append(@, s.scan_i)]
    IN  /\ s.pc = "scan"
        /\ \E o \in FetchOutcomes(s.scan_i, s.message_id) :
              st' = [st EXCEPT ![r] =
                  IF o = "media"
                  THEN StreamResolved(s1, s.scan_i, MessageOf(o, s.message_id))
                  ELSE IF NextScan(s.scan_i + 1, s.worker_idx) = PoolSize
                       THEN StreamNotFound(s1)
                       ELSE [s1 EXCEPT !.scan_i =
                                NextScan(s.scan_i + 1, s.worker_idx)]]
        /\ UNCHANGED <<sess, bin_entity, channel, disk, su, up, gi, appvars, auxvars>>

\* StreamTake with a chunk shorter than chunk_size taken for the end of the
\* data and dropped.
StreamTakeDropShort(s) ==
    LET chunk == DownloadChunk(s.message.data, s.it_pos, ChunkSize)
    IN  IF s.it_left <= 0 \/ Len(chunk) < ChunkSize
        THEN [s EXCEPT !.pc = "done"]
        ELSE [s EXCEPT !.emitted = Append(@, chunk),
                       !.remaining = @ - Len(chunk),
                       !.current_pos = @ + Len(chunk),
                       !.it_pos = @ + ChunkSize,
                       !.it_left = @ - 1,
                       !.pc = IF s.remaining - Len(chunk) <= 0
                              THEN "done" ELSE "stream"]

\* StreamTake with the download position left where it was: the same
\* chunk comes again.
StreamTakeRepeats(s) ==
    LET chunk == DownloadChunk(s.message.data, s.it_pos, ChunkSize)
    IN  IF s.it_left <= 0 \/ chunk = <<>>
        THEN [s EXCEPT !.pc = "done"]
        ELSE [s EXCEPT !.emitted = Append(@, chunk),
                       !.remaining = @ - Len(chunk),
                       !.current_pos = @ + Len(chunk),
                       !.it_left = @ - 1,
                       !.pc = IF s.remaining - Len(chunk) <= 0
                              THEN "done" ELSE "stream"]

\* The body of `async for chunk in client.iter_download(...)` for one chunk:
\* the iterator ends when its chunk count is used up or the document has no
\* byte left; otherwise the chunk is yielded whole, then remaining and
\* current_pos move by its length and the loop breaks at remaining <= 0.
StreamTake(s) ==
    LET chunk == DownloadChunk(s.message.data, s.it_pos, ChunkSize)
    IN  IF s.it_left <= 0 \/ chunk = <<>>
        THEN [s EXCEPT !.pc = "done"]
        ELSE [s EXCEPT !.emitted = Append(@, chunk),
                       !.remaining = @ - Len(chunk),
                       !.current_pos = @ + Len(chunk),
                       !.it_pos = @ + ChunkSize,
                       !.it_left = @ - 1,
                       !.pc = IF s.remaining - Len(chunk) <= 0
                              THEN "done" ELSE "stream"]

StreamChunk(r) ==
    /\ st[r].pc = "stream"
    /\ st' = [st EXCEPT ![r] = StreamTake(st[r])]
    /\ UNCHANGED <<sess, bin_entity, channel, disk, su, up, gi, appvars, auxvars>>

\* StreamTransportError with the exception swallowed: the generator ends
\* as if the document were over.
StreamTransportErrorSwallowed(r) ==
    /\ st[r].pc = "stream"
    /\ st[r].it_left > 0
    /\ st' = [st EXCEPT ![r] = [@ EXCEPT !.pc = "done",
                                         !.error = "TransportError"]]
    /\ UNCHANGED <<sess, bin_entity, channel, disk, su, up, gi, appvars, auxvars>>

\* A chunk request fails in the transport: `except Exception: raise`.
StreamTransportError(r) ==
    /\ st[r].pc = "stream"
    /\ st[r].it_left > 0
    /\ st' = [st EXCEPT ![r] = [@ EXCEPT !.pc = "raised",
                                         !.error = "TransportError"]]
    /\ UNCHANGED <<sess, bin_entity, channel, disk, su, up, gi, appvars, auxvars>>

\* The consumer is done with the generator (exhausted or failed).
StreamClose(r) ==
    /\ st[r].pc \in {"done", "raised"}
    /\ st' = [st EXCEPT ![r] = StIdle]
    /\ UNCHANGED <<sess, bin_entity, channel, disk, su, up, gi, appvars, auxvars>>

\* StreamCancel with the session of the request disconnected on the way
\* out.
StreamCancelDisconnects(r) ==
    /\ st[r].pc \in {"fetch", "scan", "stream"}
    /\ st' = [st EXCEPT ![r] = [@ EXCEPT !.pc = "cancelled"]]
    /\ sess' = [sess EXCEPT ![st[r].client] = "dead"]
    /\ UNCHANGED <<bin_entity, channel, disk, su, up, gi, appvars, auxvars>>

\* The consumer stops consuming: the generator is closed at its yield
\* (GeneratorExit) or its task is cancelled in an await (CancelledError).
\* Neither is an Exception, so `except Exception` (lines 301, 342) lets it
\* out and the generator ends; the bare `except: continue` of the failover
\* loop (line 314) takes it for a failed fetch and goes on with the scan.
StreamCancel(r) ==
    LET s  == st[r]
        s1 == [s EXCEPT !.fetched = Append(@, s.scan_i)]
    IN  /\ s.pc \in {"fetch", "scan", "stream"}
        /\ st' = [st EXCEPT ![r] =
                    IF s.pc # "scan"
                    THEN [s EXCEPT !.pc = "cancelled"]
                    ELSE IF NextScan(s.scan_i + 1, s.worker_idx) = PoolSize
                    THEN StreamNotFound(s1)
                    ELSE [s1 EXCEPT !.scan_i =
                             NextScan(s.scan_i + 1, s.worker_idx)]]
        /\ UNCHANGED <<sess, bin_entity, channel, disk, su, up, gi, appvars, auxvars>>

\* The windows of the requests that run side by side: from the head or
\* from inside the first chunk; to the end, one byte, or the longest
\* object's length.
ConcurrentOffsets == {0, 1}

ConcurrentLimits == {0, 1, MaxFileLen}

\* Request r streams handle r; the requests are issued while others are in
\* flight.
ConcurrentCall(r) ==
    /\ StartFinished
    /\ sd.pc = "idle"
    /\ st[r].pc = "idle"
    /\ \E offset \in ConcurrentOffsets, limit \in ConcurrentLimits,
          w \in Sessions :
          st' = [st EXCEPT ![r] = StreamEnter(StIdle, r, offset, limit, w)]
    /\ UNCHANGED <<sess, bin_entity, channel, disk, su, up, gi, appvars, auxvars>>

Stream(r) ==
    \/ StreamCall(r)
    \/ StreamFetch(r)
    \/ StreamScan(r)
    \/ StreamChunk(r)
    \/ StreamTransportError(r)
    \/ StreamClose(r)

\* ---------------------------------------------------------- get_file_info()

GiIdle ==
    [pc |-> "idle", message_id |-> 0, start_idx |-> 0, i |-> 0,
     fetched |-> <<>>, refreshed |-> <<>>, served_by |-> 0,
     file_size |-> 0, last_error |-> FALSE, refresh_raised |-> <<>>]

\* GiIdx without the wraparound: the index stops at the last session.
GiIdxNoWrap(g) == Min(g.start_idx + g.i, PoolSize - 1)

\* idx = (start_idx + i) % len(self.clients)
GiIdx(g) == (g.start_idx + g.i) % PoolSize

\* GiNext without the failover: the first session that fails ends the call.
GiNextNoFailover(g) == [g EXCEPT !.pc = "raised"]

\* The end of one pass of `for i in range(len(self.clients))` without a
\* return: the next pass, or after the last one raise FileNotFound.
GiNext(g) ==
    IF g.i + 1 < PoolSize
    THEN [g EXCEPT !.pc = "fetch", !.i = g.i + 1]
    ELSE [g EXCEPT !.pc = "raised"]

\* GiReturn with the scan carried on to the end of the pool after a
\* session has returned the message.
GiReturnKeepsScanning(g, message) ==
    IF g.i + 1 < PoolSize
    THEN [g EXCEPT !.pc = "fetch", !.i = g.i + 1]
    ELSE [g EXCEPT !.pc = "returned", !.served_by = GiIdx(g),
                   !.file_size = Len(message.data)]

\* return {"file_name": ..., "mime_type": ..., "file_size": message.file.size}
GiReturn(g, message) ==
    [g EXCEPT !.pc = "returned", !.served_by = GiIdx(g),
              !.file_size = Len(message.data)]

\* `if message and message.media: return {...}`, else the pass ends.
GiDecide(g, message) ==
    IF message.found /\ message.media THEN GiReturn(g, message) ELSE GiNext(g)

\* start_idx = random.randint(0, len(self.clients) - 1)
GetInfoCall ==
    /\ Quiet
    /\ \E start_idx \in Sessions :
          gi' = [GiIdle EXCEPT !.pc = "fetch", !.message_id = BlobId,
                               !.start_idx = start_idx]
    /\ UNCHANGED <<sess, bin_entity, channel, disk, su, up, st, appvars, auxvars>>

\* GetInfoFetch without the cache refresh: a message that is not found
\* ends the pass.
GetInfoFetchNoRefresh ==
    LET g1 == [gi EXCEPT !.fetched = Append(@, GiIdx(gi))]
    IN  /\ gi.pc = "fetch"
        /\ \E o \in FetchOutcomes(GiIdx(gi), gi.message_id) :
              gi' = CASE o = "raise" -> GiNext([g1 EXCEPT !.last_error = TRUE])
                      [] OTHER       -> GiDecide(g1, MessageOf(o, gi.message_id))
        /\ UNCHANGED <<sess, bin_entity, channel, disk, su, up, st, appvars, auxvars>>

\* message = await client.get_messages(...): an exception is kept as
\* last_error and ends the pass; None goes to the cache refresh.
GetInfoFetch ==
    LET g1 == [gi EXCEPT !.fetched = Append(@, GiIdx(gi))]
    IN  /\ gi.pc = "fetch"
        /\ \E o \in FetchOutcomes(GiIdx(gi), gi.message_id) :
              gi' = CASE o = "raise" -> GiNext([g1 EXCEPT !.last_error = TRUE])
                      [] o = "none"  -> [g1 EXCEPT !.pc = "refresh"]
                      [] OTHER       -> GiDecide(g1, MessageOf(o, gi.message_id))
        /\ UNCHANGED <<sess, bin_entity, channel, disk, su, up, st, appvars, auxvars>>

\* await client.get_input_entity(self.bin_channel); its exception is passed
\* over with message still None.
GetInfoRefresh ==
    LET g1 == [gi EXCEPT !.refreshed = Append(@, GiIdx(gi))]
    IN  /\ gi.pc = "refresh"
        /\ \E o \in ResolveOutcomes(GiIdx(gi)) :
              IF o = "ok"
              THEN /\ sess' = Resolved(GiIdx(gi))
                   /\ gi' = [g1 EXCEPT !.pc = "refetch"]
              ELSE /\ gi' = GiNext([g1 EXCEPT !.refresh_raised =
                                                Append(@, GiIdx(gi))])
                   /\ UNCHANGED sess
        /\ UNCHANGED <<bin_entity, channel, disk, su, up, st, appvars, auxvars>>

\* The second get_messages of the pass, inside the same try/except: pass.
GetInfoRefetch ==
    LET g1 == [gi EXCEPT !.fetched = Append(@, GiIdx(gi))]
    IN  /\ gi.pc = "refetch"
        /\ \E o \in FetchOutcomes(GiIdx(gi), gi.message_id) :
              gi' = IF o = "raise"
                    THEN GiNext(g1)
                    ELSE GiDecide(g1, MessageOf(o, gi.message_id))
        /\ UNCHANGED <<sess, bin_entity, channel, disk, su, up, st, appvars, auxvars>>

\* get_file_info called while other requests are in flight.
ConcurrentInfoCall ==
    /\ StartFinished
    /\ sd.pc = "idle"
    /\ gi.pc = "idle"
    /\ \E id \in DOMAIN channel, start_idx \in Sessions :
          gi' = [GiIdle EXCEPT !.pc = "fetch", !.message_id = id,
                               !.start_idx = start_idx]
    /\ UNCHANGED <<sess, bin_entity, channel, disk, su, up, st, appvars, auxvars>>

\* The caller has taken the result or the exception.
GetInfoClose ==
    /\ gi.pc \in {"returned", "raised"}
    /\ gi' = GiIdle
    /\ UNCHANGED <<sess, bin_entity, channel, disk, su, up, st, appvars, auxvars>>

GetInfo ==
    \/ GetInfoCall
    \/ GetInfoFetch
    \/ GetInfoRefresh
    \/ GetInfoRefetch
    \/ GetInfoClose

\* ------------------------------------------------------------ upload_file()

\* Strings that the code tests by prefix are sequences of characters.
StartsWith(str, prefix) ==
    /\ Len(prefix) <= Len(str)
    /\ SubSeq(str, 1, Len(prefix)) = prefix

\* The thumbnail arguments: None, two remote references, and two local
\* paths ("c.jpg" and "http.jpg").
NoThumb == <<>>

ThumbHttp == <<"h", "t", "t", "p", ":", "/", "/", "c">>

ThumbHttps == <<"h", "t", "t", "p", "s", ":", "/", "/", "c">>

ThumbLocal == <<"c", ".", "j", "p", "g">>

ThumbLocalHttp == <<"h", "t", "t", "p", ".", "j", "p", "g">>

LocalThumbs == {ThumbLocal, ThumbLocalHttp}

Thumbnails == {NoThumb, ThumbHttp, ThumbHttps} \cup LocalThumbs

\* thumb_name = f"thumb_{uuid.uuid4()}.jpg": a fresh name beside the file.
TempThumb == <<"t", "h", "u", "m", "b", "_", "u", "u", "i", "d">>

UpIdle ==
    [pc |-> "idle", file |-> <<>>, thumbnail |-> NoThumb,
     thumb_path |-> NoThumb, thumb_existed |-> FALSE, created |-> FALSE,
     sent |-> "no", handle |-> 0, sent_on |-> <<>>]

\* thumbnail.startswith("http://") or thumbnail.startswith("https://")
IsRemote(thumbnail) ==
    \/ StartsWith(thumbnail, <<"h", "t", "t", "p", ":", "/", "/">>)
    \/ StartsWith(thumbnail, <<"h", "t", "t", "p", "s", ":", "/", "/">>)

\* upload_file up to its first await.  A missing file_path returns None at
\* once; a remote thumbnail is fetched in the executor; a local one that
\* exists is used as it is.
UploadEnter(file_exists, file, thumbnail) ==
    LET u == [UpIdle EXCEPT !.file = file, !.thumbnail = thumbnail,
                            !.thumb_existed = thumbnail \in disk]
    IN  IF ~file_exists
        THEN [u EXCEPT !.pc = "returned"]
        ELSE IF thumbnail # NoThumb /\ IsRemote(thumbnail)
        THEN [u EXCEPT !.pc = "thumb", !.thumb_path = TempThumb]
        ELSE IF thumbnail # NoThumb /\ thumbnail \in disk
        THEN [u EXCEPT !.pc = "send", !.thumb_path = thumbnail]
        ELSE [u EXCEPT !.pc = "send"]

UploadCall ==
    /\ Quiet
    /\ up.pc = "idle"
    /\ \E file_exists \in BOOLEAN, file \in Files, thumbnail \in Thumbnails :
          up' = UploadEnter(file_exists, file, thumbnail)
    /\ UNCHANGED <<sess, bin_entity, channel, disk, su, gi, st, appvars, auxvars>>

\* _d_thumb in the executor: urlopen raises (nothing is written); or the
\* file is opened for writing and response.read() raises; or the body is
\* written.  Any exception sets thumb_path = None.
UploadThumbFetch ==
    /\ up.pc = "thumb"
    /\ \E o \in {"urlopen_raises", "read_raises", "ok"} :
          /\ disk' = IF o = "urlopen_raises" THEN disk
                     ELSE disk \cup {up.thumb_path}
          /\ up' = [up EXCEPT !.pc = "send",
                              !.created = (o # "urlopen_raises"),
                              !.thumb_path = IF o = "ok" THEN @ ELSE NoThumb]
    /\ UNCHANGED <<sess, bin_entity, channel, su, gi, st, appvars, auxvars>>

\* The finally block: if thumb_path and thumbnail.startswith("http") and
\* os.path.exists(thumb_path): os.remove(thumb_path).
UploadCleanup(u, files) ==
    IF /\ u.thumb_path # NoThumb
       /\ StartsWith(u.thumbnail, <<"h", "t", "t", "p">>)
       /\ u.thumb_path \in files
    THEN files \ {u.thumb_path}
    ELSE files

\* UploadFailed without the handler: the exception of the send leaves
\* upload_file.
UploadFailedRaises(u) ==
    [u EXCEPT !.pc = "raised", !.sent = "raised", !.handle = 0]

\* except Exception: print(...); return None
UploadFailed(u) ==
    [u EXCEPT !.pc = "returned", !.sent = "raised", !.handle = 0]

\* return msg
UploadSucceeded(u, id) ==
    [u EXCEPT !.pc = "returned", !.sent = "ok", !.handle = id]

\* UploadSendResults with a second send on another session that started
\* when the send on the primary raises.
UploadSendResultsFallback(u, ch) ==
    LET i  == pool.client
        u1 == [u EXCEPT !.sent_on = Append(@, i)]
    IN  { [up |-> UploadSucceeded(u1, Len(ch) + 1), channel |-> Append(ch, u.file)] :
            o \in (IF sess[i] = "dead" THEN {} ELSE {"ok"}) }
        \cup
        (IF \E j \in Sessions : j # i /\ sess[j] # "dead"
         THEN { [up |-> UploadSucceeded([u1 EXCEPT !.sent_on = Append(@, j)],
                                        Len(ch) + 1),
                 channel |-> Append(ch, u.file)] :
                  j \in { k \in Sessions : k # i /\ sess[k] # "dead" } }
         ELSE { [up |-> UploadFailed(u1), channel |-> ch] })

\* msg = await self.client.send_file(...) on the primary session, then the
\* handlers.  The send raises on a session that never started, and may
\* raise on any (a transport error, or the progress callback raising); when
\* it returns, the channel holds the new message.  The results of the send
\* for the call u over the channel ch.
UploadSendResults(u, ch) ==
    LET i  == pool.client
        u1 == [u EXCEPT !.sent_on = Append(@, i)]
    IN  { [up |-> UploadSucceeded(u1, Len(ch) + 1), channel |-> Append(ch, u.file)] :
            o \in (IF sess[i] = "dead" THEN {} ELSE {"ok"}) }
        \cup
        { [up |-> UploadFailed(u1), channel |-> ch] }

\* The send, its handlers and the finally block.
UploadSend ==
    /\ up.pc = "send"
    /\ \E res \in UploadSendResults(up, channel) :
          /\ up' = res.up
          /\ channel' = res.channel
    /\ disk' = UploadCleanup(up, disk)
    /\ UNCHANGED <<sess, bin_entity, su, gi, st, appvars, auxvars>>

\* upload_file of request r, called while other uploads are in flight; the
\* request uploads the file of r bytes, with no thumbnail or a local one.
UploadsCall(r) ==
    /\ StartFinished
    /\ sd.pc = "idle"
    /\ ups[r].pc = "idle"
    /\ \E file_exists \in BOOLEAN, thumbnail \in {NoThumb, ThumbLocal} :
          ups' = [ups EXCEPT ![r] = UploadEnter(file_exists, FileBytes(r), thumbnail)]
    /\ UNCHANGED <<sess, bin_entity, channel, disk, su, up, gi, st, appvars, log, sn>>

\* The send of request r.
UploadsSend(r) ==
    /\ ups[r].pc = "send"
    /\ \E res \in UploadSendResults(ups[r], channel) :
          /\ ups' = [ups EXCEPT ![r] = res.up]
          /\ channel' = res.channel
    /\ disk' = UploadCleanup(ups[r], disk)
    /\ UNCHANGED <<sess, bin_entity, su, up, gi, st, appvars, log, sn>>

Upload == UploadCall \/ UploadThumbFetch \/ UploadSend

\* The round trip of a handle: get_file_info(handle), then
\* stream_file(handle, 0, file_size) with the size it reported.
RoundTripInfo ==
    /\ Quiet
    /\ up.pc = "returned"
    /\ up.handle # 0
    /\ \E start_idx \in Sessions :
          gi' = [GiIdle EXCEPT !.pc = "fetch", !.message_id = up.handle,
                               !.start_idx = start_idx]
    /\ UNCHANGED <<sess, bin_entity, channel, disk, su, up, st, appvars, auxvars>>

RoundTripStream ==
    /\ gi.pc = "returned"
    /\ \E w \in Sessions :
          st' = [st EXCEPT ![1] =
                    StreamEnter(StIdle, gi.message_id, 0, gi.file_size, w)]
    /\ gi' = GiIdle
    /\ UNCHANGED <<sess, bin_entity, channel, disk, su, up, appvars, auxvars>>

\* --------------------------------------------------------- download_media()

DmIdle == [pc |-> "idle", message_id |-> 0, result |-> "none"]

DownloadCall ==
    /\ Quiet
    /\ dm' = [DmIdle EXCEPT !.pc = "fetch", !.message_id = BlobId]
    /\ UNCHANGED <<sess, bin_entity, channel, disk, su, up, gi, st, pool, sd, http, auxvars>>

\* message = await self.client.get_messages(...) on the primary; a raise,
\* and the FileNotFound of `if not message or not message.media`, end in
\* `except Exception: return None`.
DownloadFetch ==
    /\ dm.pc = "fetch"
    /\ \E o \in FetchOutcomes(pool.client, dm.message_id) :
          dm' = IF o = "media"
                THEN [dm EXCEPT !.pc = "write"]
                ELSE [dm EXCEPT !.pc = "returned", !.result = "None"]
    /\ UNCHANGED <<sess, bin_entity, channel, disk, su, up, gi, st, pool, sd, http, auxvars>>

\* await self.client.download_media(message, file_path); return file_path.
DownloadWrite ==
    /\ dm.pc = "write"
    /\ \E o \in {"ok", "raise"} :
          dm' = [dm EXCEPT !.pc = "returned",
                           !.result = IF o = "ok" THEN "file_path" ELSE "None"]
    /\ UNCHANGED <<sess, bin_entity, channel, disk, su, up, gi, st, pool, sd, http, auxvars>>

\* The caller has taken the result.
DownloadClose ==
    /\ dm.pc = "returned"
    /\ dm' = DmIdle
    /\ UNCHANGED <<sess, bin_entity, channel, disk, su, up, gi, st, pool, sd, http, auxvars>>

Download == DownloadCall \/ DownloadFetch \/ DownloadWrite \/ DownloadClose

\* ------------------------------------------------------------------ stop()

SdIdle ==
    [pc |-> "idle", issued |-> {}, pending |-> {}, disconnected |-> {},
     failed |-> {}]

\* The shutdown half of lifespan: init_task.cancel() ends a start() that is
\* still on its way; then stop() calls client.disconnect() on every client
\* of the pool and awaits the gather of the tasks.
StopCall ==
    /\ PoolReady
    /\ sd.pc = "idle"
    /\ up.pc \in {"idle", "returned"}
    /\ gi.pc = "idle"
    /\ \A r \in DOMAIN st : st[r].pc = "idle"
    /\ dm.pc = "idle"
    /\ http.pc = "idle"
    /\ su' = IF StartFinished THEN su ELSE [su EXCEPT !.pc = "cancelled"]
    /\ sd' = [SdIdle EXCEPT
                 !.pc = "gather",
                 !.issued = { pool.clients[k] : k \in DOMAIN pool.clients },
                 !.pending = { pool.clients[k] : k \in DOMAIN pool.clients }]
    /\ UNCHANGED <<sess, bin_entity, channel, disk, up, gi, st, pool, dm, http, auxvars>>

\* What the awaiting stop() sees when one task of asyncio.gather(*tasks)
\* ends: the first exception is propagated at once (the other tasks are
\* left running); the gather returns when the last task has ended.
GatherAfter(pc, outcome, left) ==
    IF pc # "gather" THEN pc
    ELSE IF outcome = "raise" THEN "raised"
    ELSE IF left = {} THEN "returned"
    ELSE "gather"

\* The disconnect task of session i ends: the session is disconnected, or
\* the disconnect raises.
Disconnect(i) ==
    /\ i \in sd.pending
    /\ \E o \in {"ok", "raise"} :
          /\ sd' = [sd EXCEPT
                       !.pending = @ \ {i},
                       !.disconnected = IF o = "ok" THEN @ \cup {i} ELSE @,
                       !.failed = IF o = "raise" THEN @ \cup {i} ELSE @,
                       !.pc = GatherAfter(sd.pc, o, sd.pending \ {i})]
          /\ sess' = IF o = "ok" THEN [sess EXCEPT ![i] = "dead"] ELSE sess
    /\ UNCHANGED <<bin_entity, channel, disk, su, up, gi, st, pool, dm, http, auxvars>>

Stop == StopCall \/ (\E i \in Sessions : Disconnect(i))

\* ------------------------------------------- GET /api/stream/{song_id}

\* One side of the `start-end` of a Range header: an empty string, digits,
\* something int() rejects, or (second side only) no "-" at all.
TokEmpty == [k |-> "empty", v |-> 0]

TokBad == [k |-> "bad", v |-> 0]

TokMissing == [k |-> "missing", v |-> 0]

TokInt(n) == [k |-> "int", v |-> n]

RangeAbsent == [present |-> FALSE, first |-> TokEmpty, second |-> TokMissing]

\* The Range headers that the clients are let to send.
RangeHeaders ==
    {RangeAbsent} \cup
    { [present |-> TRUE, first |-> a, second |-> b] :
        a \in {TokEmpty, TokBad} \cup { TokInt(n) : n \in 0 .. MaxFileLen },
        b \in {TokMissing, TokEmpty, TokBad} \cup
              { TokInt(n) : n \in 0 .. MaxFileLen } }

\* start and end as stream_song computes them: the defaults 0 and
\* file_size - 1; start = int(parts[0]) if parts[0] else 0; end =
\* int(parts[1]) when there is a second part; a ValueError keeps what was
\* assigned before it; then `if end >= file_size: end = file_size - 1`.
ParseRange(h, file_size) ==
    LET start == IF h.present /\ h.first.k = "int" THEN h.first.v ELSE 0
        end0  == IF h.present /\ h.first.k # "bad" /\ h.second.k = "int"
                 THEN h.second.v ELSE file_size - 1
        end   == IF end0 >= file_size THEN file_size - 1 ELSE end0
    IN  [start |-> start, end |-> end, content_length |-> end - start + 1]

HttpIdle ==
    [pc |-> "idle", status |-> 0, range |-> RangeAbsent, file_size |-> 0,
     start |-> 0, end |-> 0, content_length |-> 0]

\* stream_song up to `await tg_client.get_file_info(msg_id)`.  Nothing in
\* the handler or in lifespan holds a request back until delayed_init has
\* run start(): the server accepts requests from the `yield` of lifespan.
HttpRequest ==
    /\ PoolReady
    /\ sd.pc = "idle"
    /\ http.pc = "idle"
    /\ gi.pc = "idle"
    /\ st[1].pc = "idle"
    /\ http' = [HttpIdle EXCEPT !.pc = "info"]
    /\ \E start_idx \in Sessions :
          gi' = [GiIdle EXCEPT !.pc = "fetch", !.message_id = BlobId,
                               !.start_idx = start_idx]
    /\ UNCHANGED <<sess, bin_entity, channel, disk, su, up, st, pool, sd, dm, auxvars>>

\* get_file_info has ended.  FileNotFound: HTTPException(404).  A result:
\* the Range header is parsed and StreamingResponse(stream_file(msg_id,
\* offset=start, limit=content_length), status_code=206) is returned; the
\* response starts with the status and the headers, and the generator
\* makes its first step when the body is iterated.
HttpRespond ==
    /\ http.pc = "info"
    /\ gi.pc \in {"returned", "raised"}
    /\ IF gi.pc = "raised"
       THEN /\ http' = [http EXCEPT !.pc = "closed", !.status = 404]
            /\ UNCHANGED st
       ELSE \E h \in RangeHeaders, w \in Sessions :
               LET range == ParseRange(h, gi.file_size)
               IN  /\ http' = [http EXCEPT
                                 !.pc = "body",
                                 !.status = 206,
                                 !.range = h,
                                 !.file_size = gi.file_size,
                                 !.start = range.start,
                                 !.end = range.end,
                                 !.content_length = range.content_length]
                   /\ st' = [st EXCEPT ![1] =
                               StreamEnter(StIdle, gi.message_id, range.start,
                                           range.content_length, w)]
    /\ gi' = GiIdle
    /\ UNCHANGED <<sess, bin_entity, channel, disk, su, up, pool, sd, dm, auxvars>>

\* The response is over: the error response was sent, or the body ended
\* with the generator (exhausted or raised).
HttpClose ==
    /\ \/ http.pc = "closed"
       \/ http.pc = "body" /\ st[1].pc \in {"done", "raised"}
    /\ http' = HttpIdle
    /\ st' = [st EXCEPT ![1] = StIdle]
    /\ UNCHANGED <<sess, bin_entity, channel, disk, su, up, gi, pool, sd, dm, auxvars>>

StreamSong ==
    \/ HttpRequest
    \/ GetInfoFetch
    \/ GetInfoRefresh
    \/ GetInfoRefetch
    \/ HttpRespond
    \/ StreamFetch(1)
    \/ StreamScan(1)
    \/ StreamChunk(1)
    \/ StreamTransportError(1)
    \/ HttpClose

\* ---------------------------------------------------------- specifications

InitPool ==
    /\ sess = [i \in Sessions |-> "dead"]
    /\ bin_entity = FALSE
    /\ su = SuIdle
    /\ up = UpIdle
    /\ gi = GiIdle
    /\ st = [r \in {1} |-> StIdle]
    /\ sd = SdIdle
    /\ dm = DmIdle
    /\ http = HttpIdle
    /\ log = <<>>
    /\ ups = <<>>
    /\ sn = SnIdle

\* The pool as constructed, over a channel that holds one object uploaded
\* by an earlier run.
Init ==
    /\ InitPool
    /\ pool = PoolInit(TRUE, PoolSize)
    /\ disk = {}
    /\ \E f \in Files : channel = <<f>>

Next == Start \/ GetInfo \/ Stream(1)

Spec == Init /\ [][Next]_vars

\* The pool as constructed, over an empty channel; the caller's local
\* thumbnail files may exist.
InitUpload ==
    /\ InitPool
    /\ pool = PoolInit(TRUE, PoolSize)
    /\ disk \in SUBSET LocalThumbs
    /\ channel = <<>>

NextUpload ==
    \/ Start
    \/ Upload
    \/ RoundTripInfo
    \/ GetInfoFetch
    \/ GetInfoRefresh
    \/ GetInfoRefetch
    \/ GetInfoClose
    \/ RoundTripStream
    \/ StreamFetch(1)
    \/ StreamScan(1)
    \/ StreamChunk(1)
    \/ StreamTransportError(1)
    \/ StreamClose(1)

SpecUpload == InitUpload /\ [][NextUpload]_vars

\* start() by itself, with its history; every step of it is taken in the
\* end (the transport answers, a sleep is over).
InitStart ==
    /\ InitPool
    /\ pool = PoolInit(TRUE, PoolSize)
    /\ disk = {}
    /\ channel = <<FileBytes(MaxFileLen)>>

SpecStart == InitStart /\ [][StartLogged]_vars /\ WF_vars(StartLogged)

\* The application: the pool as constructed over a channel that holds one
\* object; lifespan runs start() in the background while the server
\* serves GET /api/stream.
NextHttp == Start \/ StreamSong

SpecHttp == Init /\ [][NextHttp]_vars

\* _sanitize_filename by itself, over the names of Names.
InitSanitize ==
    /\ sess = [i \in Sessions |-> "dead"]
    /\ bin_entity = FALSE
    /\ su = SuIdle
    /\ up = UpIdle
    /\ gi = GiIdle
    /\ st = [r \in {1} |-> StIdle]
    /\ sd = SdIdle
    /\ dm = DmIdle
    /\ http = HttpIdle
    /\ log = <<>>
    /\ ups = <<>>
    /\ pool = PoolInit(TRUE, PoolSize)
    /\ disk = {}
    /\ channel = <<>>
    /\ \E name \in Names : sn = [SnIdle EXCEPT !.input = name]

NextSanitize == SanitizeCall \/ SanitizeAgain

SpecSanitize == InitSanitize /\ [][NextSanitize]_vars

\* The life of the pool object from the import of the module to the
\* shutdown: construction, startup, the operations, stop().
InitLifecycle ==
    /\ InitPool
    /\ pool = PoolNone
    /\ disk \in SUBSET LocalThumbs
    /\ channel = <<>>

NextLifecycle == Construct \/ NextUpload \/ Download \/ Stop

SpecLifecycle == InitLifecycle /\ [][NextLifecycle]_vars

\* The requests that run side by side.
Requests == {1, 2}

\* A started pool whose primary sees the channel (the other sessions see
\* it or never started), over a channel that holds two objects.
InitConcurrent ==
    /\ pool = PoolInit(TRUE, PoolSize)
    /\ sess \in { f \in [Sessions -> {"yes", "dead"}] : f[0] = "yes" }
    /\ bin_entity = TRUE
    /\ su = [pc |-> "returned", i |-> PoolSize - 1, attempt |-> 0]
    /\ channel = <<FileBytes(MaxFileLen), FileBytes(MaxFileLen - 1)>>
    /\ disk = {}
    /\ up = UpIdle
    /\ gi = GiIdle
    /\ st = [r \in Requests |-> StIdle]
    /\ sd = SdIdle
    /\ dm = DmIdle
    /\ http = HttpIdle
    /\ log = <<>>
    /\ ups = <<>>
    /\ sn = SnIdle

NextConcurrent ==
    \/ \E r \in Requests :
          \/ ConcurrentCall(r)
          \/ StreamFetch(r)
          \/ StreamScan(r)
          \/ StreamChunk(r)
          \/ StreamTransportError(r)
          \/ StreamCancel(r)
          \/ StreamClose(r)
    \/ ConcurrentInfoCall
    \/ GetInfoFetch
    \/ GetInfoClose

SpecConcurrent == InitConcurrent /\ [][NextConcurrent]_vars

\* The steps the event loop takes for a get_file_info in flight.
GetInfoStep == GetInfoFetch \/ GetInfoRefresh \/ GetInfoRefetch

Uploaders == {1, 2}

\* A pool after start(), whatever became of each session (start() raised
\* when the primary never started), over a channel that holds one object.
InitUploads ==
    /\ pool = PoolInit(TRUE, PoolSize)
    /\ sess \in [Sessions -> {"yes", "stale", "no", "dead"}]
    /\ bin_entity = (sess[0] # "dead")
    /\ su = [pc |-> IF sess[0] = "dead" THEN "raised" ELSE "returned",
             i |-> PoolSize - 1, attempt |-> 0]
    /\ channel = <<FileBytes(MaxFileLen)>>
    /\ disk = {ThumbLocal}
    /\ up = UpIdle
    /\ gi = GiIdle
    /\ st = [r \in {1} |-> StIdle]
    /\ sd = SdIdle
    /\ dm = DmIdle
    /\ http = HttpIdle
    /\ log = <<>>
    /\ ups = [r \in Uploaders |-> UpIdle]
    /\ sn = SnIdle

\* Uploads running concurrently with one another and with a lookup.
NextUploads ==
    \/ \E r \in Uploaders : UploadsCall(r) \/ UploadsSend(r)
    \/ ConcurrentInfoCall
    \/ GetInfoStep
    \/ GetInfoClose

SpecUploads == InitUploads /\ [][NextUploads]_vars

\* A started pool in which the connection of at most one session has gone
\* silent after the start: a call awaited on it gets no answer, the other
\* sessions answer.
InitHung ==
    /\ pool = PoolInit(TRUE, PoolSize)
    /\ sess \in { f \in [Sessions -> {"yes", "stale", "no", "dead", "hung"}] :
                    Cardinality({ i \in Sessions : f[i] = "hung" }) <= 1 }
    /\ bin_entity = TRUE
    /\ su = [pc |-> "returned", i |-> PoolSize - 1, attempt |-> 0]
    /\ channel = <<FileBytes(MaxFileLen)>>
    /\ disk = {}
    /\ up = UpIdle
    /\ gi = GiIdle
    /\ st = [r \in {1} |-> StIdle]
    /\ sd = SdIdle
    /\ dm = DmIdle
    /\ http = HttpIdle
    /\ log = <<>>
    /\ ups = <<>>
    /\ sn = SnIdle

\* The steps the event loop takes for stream_file of request r in flight.
StreamStep(r) ==
    \/ StreamFetch(r)
    \/ StreamScan(r)
    \/ StreamChunk(r)
    \/ StreamTransportError(r)

NextHung ==
    \/ ConcurrentInfoCall
    \/ GetInfoStep
    \/ GetInfoClose
    \/ ConcurrentCall(1)
    \/ StreamStep(1)
    \/ StreamClose(1)

\* The event loop resumes every coroutine whose awaited call has an answer.
SpecHung ==
    InitHung /\ [][NextHung]_vars /\ WF_vars(GetInfoStep) /\ WF_vars(StreamStep(1))

\* ------------------------------------------------------------------ claims

RECURSIVE Concat(_)
\* The concatenation of a sequence of chunks.
Concat(chunks) ==
    IF chunks = <<>> THEN <<>> ELSE Head(chunks) \o Concat(Tail(chunks))

RangeOf(seq) == { seq[k] : k \in DOMAIN seq }

RECURSIVE Dedup(_)
\* A sequence without its immediate repetitions.
Dedup(seq) ==
    IF Len(seq) <= 1 THEN seq
    ELSE IF seq[1] = seq[2] THEN Dedup(Tail(seq))
    ELSE <<seq[1]>> \o Dedup(Tail(seq))

\* The object a request looks up.
ObjectOf(id) == IF id \in DOMAIN channel THEN channel[id] ELSE <<>>

\* Session i answers a fetch of message id with the message and its media.
CanSee(i, id) == sess[i] = "yes" /\ id \in DOMAIN channel

\* The request asks for a window inside the object.
ValidWindow(s) ==
    /\ s.length > 0
    /\ s.offset + s.length <= Len(ObjectOf(s.message_id))

\* C1: for a window with offset >= 0, length > 0 and offset + length <= S,
\* the bytes yielded by stream_file never exceed `length` in number, and a
\* stream that ends normally has yielded exactly bytes [offset, offset +
\* length) of the object.
C1_RangeExact ==
    \A r \in DOMAIN st :
        LET s == st[r]
        IN  (s.pc \in {"stream", "done", "raised"} /\ ValidWindow(s)) =>
                /\ Len(Concat(s.emitted)) <= s.length
                /\ (s.pc = "done" =>
                        Concat(s.emitted) =
                            SubSeq(ObjectOf(s.message_id), s.offset + 1,
                                   s.offset + s.length))

\* C3: stream_file does not raise FileNotFound while some session of the
\* pool can return the message with its media, however the picked session
\* failed to see it.
C3_StreamFailover ==
    \A r \in DOMAIN st :
        (\E i \in Sessions : CanSee(i, st[r].message_id)) =>
            st[r].error # "FileNotFound"

\* C4: stream_file raises FileNotFound when no session can see the message
\* (it never gets to stream), and whenever it raises FileNotFound a fetch
\* has been attempted on every session of the pool.
C4_StreamExhaustion ==
    \A r \in DOMAIN st :
        /\ (st[r].pc \in {"stream", "done"} =>
                \E i \in Sessions : CanSee(i, st[r].message_id))
        /\ (st[r].error = "FileNotFound" =>
                RangeOf(st[r].fetched) = Sessions)

\* C5: get_file_info does not raise while some session returns the message
\* with its media, whatever the start index and the failures of the other
\* sessions, and the size it returns is the object's.
C5_InfoFailover ==
    /\ (\E i \in Sessions : CanSee(i, gi.message_id)) => gi.pc # "raised"
    /\ gi.pc = "returned" => gi.file_size = Len(ObjectOf(gi.message_id))

\* It returned after another session had raised.
C5_Witness ==
    /\ gi.pc = "returned"
    /\ gi.last_error
    /\ gi.served_by # gi.start_idx

\* The order start, start + 1, ..., with wraparound, over the whole pool.
VisitOrder(start) == [k \in 1 .. PoolSize |-> (start + k - 1) % PoolSize]

\* C6: get_file_info raises FileNotFound only when no session yields the
\* message with media and returns only from a session that does; when it
\* raises, every session has been tried, once each, in the order start,
\* start + 1, ... with wraparound.
C6_InfoExhaustion ==
    /\ gi.pc = "raised" =>
          /\ \A i \in Sessions : ~CanSee(i, gi.message_id)
          /\ Dedup(gi.fetched) = VisitOrder(gi.start_idx)
    /\ gi.pc = "returned" => CanSee(gi.served_by, gi.message_id)

\* It raised after a scan that started at the last session and wrapped
\* around, with a refresh on the way.
C6_Witness ==
    /\ gi.pc = "raised"
    /\ gi.start_idx = PoolSize - 1
    /\ gi.refreshed # <<>>

\* C7: with one session (the primary included) failing every attempt of
\* the startup, start() does not raise, and a later stream_file of a blob
\* that the other sessions see does not raise FileNotFound.
C7_PartialStartup ==
    /\ Cardinality({ i \in Sessions : sess[i] = "dead" }) = 1 =>
          su.pc # "raised"
    /\ \A r \in DOMAIN st :
          (/\ StartFinished
           /\ sess[st[r].worker_idx] = "dead"
           /\ \E i \in Sessions : CanSee(i, st[r].message_id)) =>
              st[r].error # "FileNotFound"

C8_UploadIsolation ==
    /\ up.pc # "raised"
    /\ (up.pc = "returned" /\ up.sent = "raised") => up.handle = 0
    /\ up.handle # 0 =>
          /\ up.sent = "ok"
          /\ up.handle \in DOMAIN channel
          /\ channel[up.handle] = up.file

\* The send raised and upload_file returned None; no message was created.
C8_Witness ==
    /\ up.pc = "returned"
    /\ up.sent = "raised"
    /\ up.handle = 0
    /\ channel = <<>>

\* C9: when upload_file has returned, no temporary thumbnail file that the
\* call created is left on the disk.
C9_TempThumbCleanup ==
    (up.pc = "returned" /\ up.created) => TempThumb \notin disk

\* C10: a thumbnail argument that is an existing local path (no http:// or
\* https:// reference) still exists when upload_file has returned.
C10_CallerThumbKept ==
    (/\ up.pc = "returned"
     /\ up.thumbnail # NoThumb
     /\ ~IsRemote(up.thumbnail)
     /\ up.thumb_existed) =>
        up.thumbnail \in disk

\* The bytes of the object from byte `offset` to its end.
Suffix(data, offset) == SubSeq(data, offset + 1, Len(data))

\* seq is a prefix of full.
IsPrefix(seq, full) ==
    /\ Len(seq) <= Len(full)
    /\ seq = SubSeq(full, 1, Len(seq))

\* C13: for an object of size S and 0 <= offset < S, a stream_file whose
\* length is <= 0 or greater than S - offset never yields anything but the
\* bytes from offset on, in order, and when it ends normally it has yielded
\* exactly the S - offset bytes up to the end of the object.
C13_LengthClamp ==
    \A r \in DOMAIN st :
        LET s == st[r]
            S == Len(ObjectOf(s.message_id))
        IN  (/\ s.pc \in {"stream", "done", "raised"}
             /\ s.message.media
             /\ s.offset < S
             /\ (s.length <= 0 \/ s.length > S - s.offset)) =>
                /\ IsPrefix(Concat(s.emitted),
                            Suffix(ObjectOf(s.message_id), s.offset))
                /\ s.error # "FileNotFound"
                /\ (s.pc = "done" =>
                        /\ Len(Concat(s.emitted)) = S - s.offset
                        /\ s.error = "none")

\* A length past the end of the object, from an offset inside it: the
\* stream ended normally after several chunks, the last one short.
C13_Witness ==
    /\ st[1].pc = "done"
    /\ st[1].offset > 0
    /\ st[1].length > Len(ObjectOf(st[1].message_id)) - st[1].offset
    /\ Len(st[1].emitted) >= 2
    /\ Len(Concat(st[1].emitted)) =
           Len(ObjectOf(st[1].message_id)) - st[1].offset

\* C14: for a blob that the streaming session sees and an offset at or past
\* its size, stream_file with any length yields no byte and raises no
\* FileNotFound; the only way it does not end normally is a failure of the
\* transport.
C14_OffsetPastEnd ==
    \A r \in DOMAIN st :
        LET s == st[r]
        IN  (/\ s.pc \in {"stream", "done", "raised"}
             /\ s.message.media
             /\ s.offset >= Len(ObjectOf(s.message_id))) =>
                /\ s.emitted = <<>>
                /\ s.error \in {"none", "TransportError"}
                /\ (s.pc = "raised" => s.error = "TransportError")
                /\ (s.pc = "stream" => StreamTake(s).pc = "done")

\* An offset past the end with a positive length: the stream ended normally
\* with nothing yielded.
C14_Witness ==
    /\ st[1].pc = "done"
    /\ st[1].message.media
    /\ st[1].offset > Len(ObjectOf(st[1].message_id))
    /\ st[1].length > 0
    /\ st[1].emitted = <<>>
    /\ st[1].error = "none"

\* C15: a transport error raised while stream_file is yielding chunks
\* leaves the generator raised, never ended normally; and from the first
\* yielded chunk on, a request keeps its session, fetches no message again
\* and only appends to what it has yielded, the next chunk being the bytes
\* that follow the previous ones in the object.
C15_MidStreamFailure ==
    /\ [](\A r \in DOMAIN st :
            st[r].error = "TransportError" => st[r].pc = "raised")
    /\ [][\A r \in DOMAIN st :
            (st[r].emitted # <<>> /\ st'[r].pc # "idle") =>
                /\ st'[r].client = st[r].client
                /\ st'[r].fetched = st[r].fetched
                /\ IsPrefix(st[r].emitted, st'[r].emitted)
                /\ IsPrefix(Concat(st'[r].emitted),
                            Suffix(ObjectOf(st[r].message_id), st[r].offset))
                /\ (st[r].error # "none" => st'[r] = st[r])]_vars

\* The transport failed after a chunk had been yielded by a session that
\* the failover had switched to.
C15_Witness ==
    /\ st[1].pc = "raised"
    /\ st[1].error = "TransportError"
    /\ st[1].emitted # <<>>
    /\ st[1].client # st[1].worker_idx

\* Some request is in flight on the pool.
RequestInFlight ==
    \/ gi.pc # "idle"
    \/ up.pc \notin {"idle", "returned"}
    \/ \E r \in DOMAIN st : st[r].pc # "idle"

\* C16: an upload_file, get_file_info or stream_file call is in flight
\* only when start() has returned with the destination resolved: never
\* while the startup is pending, running, or has failed.
C16_ResolveBeforeUse ==
    RequestInFlight => (su.pc = "returned" /\ bin_entity)

\* C20: whenever FileNotFound is raised while GET /api/stream is served, by
\* get_file_info or by the stream_file generator, the status of the
\* response is 404.
C20_NotFoundIs404 ==
    /\ http.pc = "closed" => http.status = 404
    /\ (http.pc = "body" /\ st[1].error = "FileNotFound") =>
          http.status = 404

\* C17: with at least one session online, upload_file of an existing file
\* does not come back without a handle because the primary session is
\* offline, and get_file_info and stream_file of a blob that an online
\* session sees do not raise FileNotFound.
C17_DegradedUsable ==
    (\E i \in Sessions : sess[i] # "dead") =>
        /\ (up.pc = "returned" /\ up.sent = "raised") => sess[0] # "dead"
        /\ (\E i \in Sessions : CanSee(i, gi.message_id)) =>
              gi.pc # "raised"
        /\ \A r \in DOMAIN st :
              (\E i \in Sessions : CanSee(i, st[r].message_id)) =>
                  st[r].error # "FileNotFound"

\* C18: a constructed pool has at least one session, as many sessions as
\* the configured size, each a session of its own, and the first one as
\* primary; and once the pool is constructed no step of start, stop,
\* upload_file, get_file_info, stream_file or download_media changes its
\* sessions, their order or the primary.
C18_PoolInvariant ==
    /\ [](pool.state = "ok" =>
            /\ Len(pool.clients) >= 1
            /\ Len(pool.clients) = pool.pool_size
            /\ pool.client = pool.clients[1]
            /\ \A j, k \in DOMAIN pool.clients :
                  pool.clients[j] = pool.clients[k] => j = k)
    /\ [][pool.state = "ok" => pool' = pool]_vars

\* The pool was constructed, started, took an upload and was stopped.
C18_Witness ==
    /\ pool.state = "ok"
    /\ su.pc = "returned"
    /\ up.handle # 0
    /\ sd.pc = "returned"

\* C19: when stop() is over, a disconnect has been issued on every session
\* of the pool and no session is left connected: every session is
\* disconnected, but one whose own disconnect raised.
C19_StopDisconnectsAll ==
    sd.pc \in {"returned", "raised"} =>
        /\ sd.issued = Sessions
        /\ \A i \in Sessions : i \in sd.disconnected \cup sd.failed

\* The bytes of the window (offset, length) of an object: to its end when
\* length <= 0.
WindowBytes(data, offset, length) ==
    SubSeq(data, offset + 1,
           IF length <= 0 THEN Len(data) ELSE Min(offset + length, Len(data)))

\* Request r runs beside a request for another handle on the same session.
SharesSession(r) ==
    \E q \in DOMAIN st :
        /\ q # r
        /\ st[q].pc \notin {"idle", "fetch", "scan"}
        /\ st[q].client = st[r].client
        /\ st[q].message_id # st[r].message_id

\* C11: of two stream_file requests for two handles running on the same
\* session, each one that ends normally has yielded exactly the bytes of
\* the window of its own handle, and yields no byte outside it on the way.
C11_ConcurrentIsolation ==
    \A r \in DOMAIN st :
        LET s      == st[r]
            window == WindowBytes(ObjectOf(s.message_id), s.offset, s.length)
        IN  (s.pc \in {"stream", "done"} /\ SharesSession(r)) =>
                /\ IsPrefix(Concat(s.emitted), window)
                /\ (s.pc = "done" => Concat(s.emitted) = window)

RECURSIVE RunAlone(_)
\* The generator run to its end with nothing else going on.
RunAlone(s) == IF s.pc = "stream" THEN RunAlone(StreamTake(s)) ELSE s

\* What stream_file yields for the request of s, taken by itself, on a
\* session that sees the message.
YieldedAlone(s) ==
    RunAlone(StreamBegin(
        StreamEnter(StIdle, s.message_id, s.offset, s.length, s.worker_idx),
        s.client, MessageOf("media", s.message_id))).emitted

Entries(call, i) ==
    { k \in DOMAIN log : log[k].call = call /\ log[k].i = i }

\* The positions of the history where session i answered `call` with
\* `outcome`.
EntriesWith(call, i, outcome) ==
    { k \in Entries(call, i) : log[k].outcome = outcome }

\* The startup loop has left session i behind.
AttemptsOver(i) ==
    \/ su.pc \notin {"init", "auth"}
    \/ su.pc = "auth" /\ su.i > i

\* C21: a rate-limit wait is followed by another attempt on the same
\* session and is not counted against the 3 attempts: a session that
\* start() leaves without having started it has failed 3 times with an
\* error that is not a rate limit.
C21_FloodWaitsFree ==
    /\ \A i \in Sessions :
          (AttemptsOver(i) /\ EntriesWith("start", i, "ok") = {}) =>
              Cardinality(EntriesWith("start", i, "error")) = MaxRetries
    /\ \A k \in DOMAIN log :
          (/\ log[k].call = "start"
           /\ log[k].outcome = "flood"
           /\ k + 1 \in DOMAIN log) =>
              (log[k + 1].call = "start" /\ log[k + 1].i = log[k].i)

\* C22: start() makes at most 3 authentication attempts on a session,
\* whatever the transport answers, and the loop over the pool comes to its
\* end.
C22_StartupTerminates ==
    /\ [](\A i \in Sessions :
            Cardinality(Entries("start", i)) <= MaxRetries)
    /\ [](su.attempt < MaxRetries)
    /\ (su.pc = "auth") ~> (su.pc = "getme")

\* Every attempt on every session failed, by rate limits and by errors,
\* and the loop is over.
C22_Witness ==
    /\ su.pc = "getme"
    /\ \A i \in Sessions :
          /\ Cardinality(Entries("start", i)) = MaxRetries
          /\ EntriesWith("start", i, "ok") = {}
          /\ EntriesWith("start", i, "flood") # {}
          /\ EntriesWith("start", i, "error") # {}

C24_ResolveWholePool ==
    /\ su.pc = "returned" =>
          \A i \in Sessions : Entries("resolve", i) # {}
    /\ \A k \in DOMAIN log :
          log[k].call = "resolve" =>
              /\ Entries("resolve", 0) # {}
              /\ \A j \in Entries("resolve", 0) : j <= k
    /\ su.pc = "raised" =>
          \A k \in DOMAIN log : log[k].call # "resolve"

\* How many times x stands in seq.
Count(seq, x) == Cardinality({ k \in DOMAIN seq : seq[k] = x })

\* get_file_info has fetched on session j and has left it behind.
PassOver(j) ==
    /\ j \in RangeOf(gi.fetched)
    /\ (gi.pc \in {"returned", "raised"} \/ GiIdx(gi) # j)

\* No session is fetched more than twice or refreshed more than once in a
\* lookup, a second fetch comes only after a refresh, a refreshed session
\* was fetched before, the calls on one session are not interleaved with
\* another's, and a session that reports the message as not found is
\* refreshed.
RetryBounds ==
    /\ \A j \in Sessions :
          /\ Count(gi.fetched, j) <= 2
          /\ Count(gi.refreshed, j) <= 1
          /\ Count(gi.fetched, j) = 2 => Count(gi.refreshed, j) = 1
          /\ (PassOver(j) /\ sess[j] = "stale") => Count(gi.refreshed, j) = 1
    /\ IsPrefix(Dedup(gi.fetched), VisitOrder(gi.start_idx))
    /\ RangeOf(gi.refreshed) \subseteq RangeOf(gi.fetched)

\* C25 as stated: on every session where the message is reported as not
\* found, one refresh and then one re-fetch are performed before the next
\* session is tried (a session that was refreshed was fetched twice).
C25_StaleRetryExact ==
    /\ RetryBounds
    /\ \A j \in Sessions :
          (PassOver(j) /\ Count(gi.refreshed, j) = 1) =>
              Count(gi.fetched, j) = 2

\* C25, amended: on every session where the message is reported as not
\* found, one refresh is attempted; the one re-fetch follows when the
\* refresh succeeded, and when the refresh raised the next session is
\* tried without a re-fetch.
C25_StaleRetry ==
    /\ RetryBounds
    /\ \A j \in Sessions :
          (PassOver(j) /\ Count(gi.refreshed, j) = 1) =>
              (Count(gi.fetched, j) = 2 <=> j \notin RangeOf(gi.refresh_raised))

\* A lookup where one session was refreshed and fetched again and another
\* one failed its refresh.
C25_Witness ==
    /\ gi.pc \in {"returned", "raised"}
    /\ \E j, k \in Sessions :
          /\ Count(gi.fetched, j) = 2
          /\ Count(gi.refreshed, k) = 1
          /\ Count(gi.fetched, k) = 1
          /\ k \in RangeOf(gi.refresh_raised)

\* C26: in a pool where some session failed to start, get_file_info and
\* stream_file fetch only on sessions that started.
C26_ScansSkipDead ==
    StartFinished =>
        /\ \A j \in RangeOf(gi.fetched) : sess[j] # "dead"
        /\ \A r \in DOMAIN st :
              \A j \in RangeOf(st[r].fetched) : sess[j] # "dead"

\* C27: a metadata fetch that never completes is a failover: a
\* get_file_info or stream_file that is fetching returns or raises in the
\* end.
C27_HungFetchFailsOver ==
    /\ (gi.pc \in {"fetch", "refresh", "refetch"})
          ~> (gi.pc \in {"returned", "raised"})
    /\ (st[1].pc \in {"fetch", "scan"})
          ~> (st[1].pc \in {"stream", "done", "raised"})

\* C28: at every point of a stream_file that has found its message, its
\* end by a transport error included, the chunks yielded so far are,
\* concatenated, a prefix of the object's bytes from `offset` on, no chunk
\* is empty, and current_pos is offset plus the number of bytes yielded.
C28_PrefixInvariant ==
    \A r \in DOMAIN st :
        LET s == st[r]
        IN  (s.pc \in {"stream", "done", "raised"} /\ s.message.media) =>
                /\ IsPrefix(Concat(s.emitted),
                            Suffix(ObjectOf(s.message_id), s.offset))
                /\ \A k \in DOMAIN s.emitted : s.emitted[k] # <<>>
                /\ s.current_pos = s.offset + Len(Concat(s.emitted))

\* A stream from inside the object failed in the transport after two
\* chunks.
C28_Witness ==
    /\ st[1].pc = "raised"
    /\ st[1].error = "TransportError"
    /\ st[1].offset > 0
    /\ Len(st[1].emitted) >= 2

\* C29: every upload sends on session 0 and on no other, once, whatever
\* the state of the rest of the pool and whatever other uploads are in
\* flight; an upload whose send failed has made no send on another session
\* and has no handle.
C29_UploadsOnPrimary ==
    \A r \in DOMAIN ups :
        /\ \A k \in DOMAIN ups[r].sent_on : ups[r].sent_on[k] = 0
        /\ Len(ups[r].sent_on) <= 1
        /\ ups[r].sent # "no" => ups[r].sent_on = <<0>>
        /\ ups[r].sent = "raised" => ups[r].handle = 0
        /\ sess[0] = "dead" => ups[r].handle = 0

\* An upload has failed on a primary that never started while another
\* session is live and another upload is in flight.
C29_Witness ==
    /\ sess[0] = "dead"
    /\ \E j \in Sessions : sess[j] = "yes"
    /\ ups[1].pc = "returned"
    /\ ups[1].sent = "raised"
    /\ ups[1].sent_on = <<0>>
    /\ ups[2].pc = "send"

\* C30: get_file_info returns from the first session, in the order start,
\* start + 1, ... with wraparound, that returns the message with media:
\* the last call it made is the fetch on that session, no session before
\* it in the order sees the message, and once it has returned it makes no
\* further call.
C30_FirstSuccessWins ==
    /\ [](gi.pc = "returned" =>
            LET order == Dedup(gi.fetched)
            IN  /\ IsPrefix(order, VisitOrder(gi.start_idx))
                /\ order[Len(order)] = gi.served_by
                /\ \A k \in 1 .. (Len(order) - 1) :
                      ~CanSee(order[k], gi.message_id))
    /\ [][gi.pc = "returned" =>
            \/ gi'.pc = "idle"
            \/ (gi'.fetched = gi.fetched /\ gi'.refreshed = gi.refreshed)]_vars

\* The scan started at the last session, wrapped around and returned from
\* the last session of the order.
C30_Witness ==
    /\ gi.pc = "returned"
    /\ PoolSize > 1
    /\ gi.start_idx = PoolSize - 1
    /\ Len(Dedup(gi.fetched)) = PoolSize
    /\ gi.served_by = PoolSize - 2

\* C31: a step of get_file_info, stream_file or upload_file (any step that
\* is not one of start()) leaves the pool object (session list, pool size,
\* primary) and the cached entity as they are; it changes the session
\* table only as the cache refresh of get_file_info, on the session being
\* refreshed; and a step of a request in flight changes no other request.
C31_RequestsFramePool ==
    [][su' = su =>
         /\ pool' = pool
         /\ bin_entity' = bin_entity
         /\ sess' # sess =>
               /\ gi.pc = "refresh"
               /\ sess[GiIdx(gi)] = "stale"
               /\ sess' = [sess EXCEPT ![GiIdx(gi)] = "yes"]
         /\ (gi' # gi /\ gi.pc \in {"fetch", "refresh", "refetch"}) =>
               (st' = st /\ up' = up)
         /\ (st' # st /\ st[1].pc \in {"fetch", "scan", "stream"}) =>
               (gi' = gi /\ up' = up)
         /\ (up' # up /\ up.pc \in {"thumb", "send"}) =>
               (gi' = gi /\ st' = st)]_vars

\* The lookup of an uploaded handle has refreshed the cache of one session
\* while another session's cache is still stale.
C31_Witness ==
    /\ up.handle # 0
    /\ gi.pc = "refetch"
    /\ gi.message_id = up.handle
    /\ sess[GiIdx(gi)] = "yes"
    /\ \E j \in Sessions : j # GiIdx(gi) /\ sess[j] = "stale"

\* C32: a stream_file that has found its message downloads on the session
\* of its last fetch, the one that returned the message: the picked
\* session when that was its only fetch, otherwise the first session of
\* the scan, in index order without the picked one, that sees the message;
\* and the session stays the same until the generator is closed.
C32_StreamsOnResolver ==
    /\ [](\A r \in DOMAIN st :
            LET s == st[r]
            IN  (s.pc \in {"stream", "done", "raised"} /\ s.message.media) =>
                    /\ s.fetched # <<>>
                    /\ s.client = s.fetched[Len(s.fetched)]
                    /\ s.fetched[1] = s.worker_idx
                    /\ CanSee(s.client, s.message_id)
                    /\ s.message = MessageOf("media", s.message_id)
                    /\ Len(s.fetched) > 1 =>
                          /\ s.client # s.worker_idx
                          /\ { s.fetched[k] : k \in 2 .. Len(s.fetched) } =
                                { j \in 0 .. s.client : j # s.worker_idx }
                          /\ \A k \in 2 .. (Len(s.fetched) - 1) :
                                /\ s.fetched[k] < s.fetched[k + 1]
                                /\ ~CanSee(s.fetched[k], s.message_id))
    /\ [][\A r \in DOMAIN st :
            st[r].pc = "stream" =>
                (st'[r].pc = "idle" \/ st'[r].client = st[r].client)]_vars

\* A stream that was picked onto the last session and found its message
\* in the scan has yielded two chunks from the session of the scan.
C32_Witness ==
    /\ st[1].pc = "done"
    /\ st[1].worker_idx = PoolSize - 1
    /\ st[1].client # st[1].worker_idx
    /\ Len(st[1].fetched) = PoolSize
    /\ Len(st[1].emitted) >= 2

\* Every call awaited on a session gets an answer.
AllAnswer == \A i \in Sessions : sess[i] # "hung"

\* C33: one get_file_info makes at most 2 * PoolSize fetches and PoolSize
\* refreshes; one stream_file makes at most PoolSize fetches, no session
\* twice (the picked one first and never again in the scan), and none once
\* it streams; and when every call is answered, a lookup in flight ends
\* with a result or with FileNotFound.
C33_BoundedLookup ==
    /\ [](/\ Len(gi.fetched) <= 2 * PoolSize
          /\ Len(gi.refreshed) <= PoolSize
          /\ \A r \in DOMAIN st :
                /\ Len(st[r].fetched) <= PoolSize
                /\ \A j \in Sessions : Count(st[r].fetched, j) <= 1
                /\ st[r].fetched # <<>> => st[r].fetched[1] = st[r].worker_idx
                /\ (st[r].pc = "raised" /\ ~st[r].message.media) =>
                      st[r].error = "FileNotFound")
    /\ [][\A r \in DOMAIN st :
            st[r].pc \in {"stream", "done", "raised"} =>
                (st'[r].pc = "idle" \/ st'[r].fetched = st[r].fetched)]_vars
    /\ (AllAnswer /\ gi.pc \in {"fetch", "refresh", "refetch"})
          ~> (gi.pc \in {"returned", "raised"})
    /\ (AllAnswer /\ st[1].pc \in {"fetch", "scan"})
          ~> (st[1].pc \in {"stream", "done", "raised"})

\* Both lookups have used up their bounds: get_file_info has raised after
\* two fetches and one refresh on every session, stream_file after one
\* fetch on every session.
C33_Witness ==
    /\ AllAnswer
    /\ gi.pc = "raised"
    /\ Len(gi.fetched) = 2 * PoolSize
    /\ Len(gi.refreshed) = PoolSize
    /\ st[1].pc = "raised"
    /\ st[1].error = "FileNotFound"
    /\ Len(st[1].fetched) = PoolSize

\* C34: for every response of GET /api/stream with status 206, whatever
\* the Range header, 0 <= start <= end <= file_size - 1, the Content-Length
\* is end - start + 1 and at least 1, and a body that has ended normally
\* holds exactly Content-Length bytes.
C34_BodyMatchesLength ==
    (http.pc = "body" /\ http.status = 206) =>
        /\ 0 <= http.start
        /\ http.start <= http.end
        /\ http.end <= http.file_size - 1
        /\ http.content_length = http.end - http.start + 1
        /\ http.content_length >= 1
        /\ st[1].pc = "done" =>
              Len(Concat(st[1].emitted)) = http.content_length

\* C35: the name that _sanitize_filename returns holds none of the
\* characters < > : " / \ ? * | (each | of the input has become a -, the
\* others are removed), is at most MaxNameLen characters long and has the
\* extension of the input; sanitizing it again returns it unchanged.
C35_SanitizeFilename ==
    (sn.pc \in {"once", "twice"}) =>
        /\ \A k \in DOMAIN sn.once : sn.once[k] \notin Illegal \cup {"|", "U+FF5C"}
        /\ Len(sn.once) <= MaxNameLen
        /\ SplitExt(sn.once).ext = SplitExt(StripIllegal(ReplaceBars(sn.input))).ext
        /\ sn.pc = "twice" => sn.twice = sn.once

====
